---- MODULE Spec2Model ----
(***************************************************************************)
(* Model of eb_hooks.py, the EasyBuild hooks of the EESSI software layer.  *)
(*                                                                         *)
(* Strings of the program are sequences of symbols.  A symbol is a single  *)
(* character ("/", ".", " ", ":", "\n", a letter) or a chunk of text that   *)
(* no operation of the program looks inside: a path component, a file      *)
(* stem, a version number part, a literal of the source taken whole.       *)
(* Substring tests, str.replace, str.split, str.join and os.path.join are  *)
(* computed on these sequences the way Python computes them on characters. *)
(***************************************************************************)
EXTENDS Integers, Sequences, FiniteSets, TLC

\* Number of hook invocations explored from each initial state.
MaxCalls == 4
\* Number of invocations of inject_gpu_property on one easyconfig.
MaxInjectCalls == 3
\* Length of the dependency and build-dependency lists of an input.
MaxDeps == 3
MaxBuildDeps == 1
\* Number of invocations of the dispatching hooks and of the patchers.
MaxHookCalls == 2
\* Number of invocations of cuda_postpackage on one install tree.
MaxCudaCalls == 2
\* Number of lines of EULA.txt.
MaxEulaLines == 3
\* Number of invocations the history keeps.
HistLen == 3

VARIABLES
    environ,              \* os.environ: variable name -> value (a set variable is in the domain)
    rpath_override_dirs,  \* build_option("rpath_override_dirs")
    attrs,                \* build-step object -> value of its orig_rpath_override_dirs attribute
    ec,                   \* the easyconfig: parameter name -> value
    host,                 \* get_cpu_architecture(), get_cpu_features(), build_option("optarch")
    installdir,           \* self.installdir
    fs,                   \* the files below installdir: path -> regular file or symlink
    eula,                 \* the lines of <installdir>/EULA.txt
    ln_ok,                \* whether the shell command "ln -s" succeeds
    hist,                 \* the last hook invocations, oldest first
    ncalls                \* number of invocations made so far

prepVars == <<rpath_override_dirs, attrs>>
ecVars == <<ec, host>>
fsVars == <<installdir, fs, eula, ln_ok>>
vars == <<environ, prepVars, ecVars, fsVars, hist, ncalls>>

----------------------------------------------------------------------------
(* Python string and path primitives                                       *)

\* s[i..] starts with p
StartsAt(s, p, i) ==
    /\ i + Len(p) - 1 <= Len(s)
    /\ \A k \in 1..Len(p) : s[i + k - 1] = p[k]

\* Python: p in s
Contains(s, p) == \E i \in 1..(Len(s) + 1) : StartsAt(s, p, i)

\* Python: s.find(p) + 1, 0 when absent
Find(s, p) ==
    IF Contains(s, p)
    THEN CHOOSE i \in 1..(Len(s) + 1) :
            /\ StartsAt(s, p, i)
            /\ \A j \in 1..(i - 1) : ~StartsAt(s, p, j)
    ELSE 0

\* Python: s.replace(old, new, 1)
ReplaceFirst(s, old, new) ==
    LET i == Find(s, old) IN
    IF i = 0 THEN s
    ELSE SubSeq(s, 1, i - 1) \o new \o SubSeq(s, i + Len(old), Len(s))

\* Python: sep.join(list)
RECURSIVE StrJoin(_, _)
StrJoin(sep, list) ==
    IF list = <<>> THEN <<>>
    ELSE IF Len(list) = 1 THEN list[1]
    ELSE list[1] \o sep \o StrJoin(sep, Tail(list))

\* posixpath.join(a, b)
PathJoin(a, b) ==
    IF b # <<>> /\ b[1] = "/" THEN b
    ELSE IF a = <<>> \/ a[Len(a)] = "/" THEN a \o b
    ELSE a \o <<"/">> \o b

\* posixpath.join(a, p1, p2, ...)
RECURSIVE PathJoinAll(_, _)
PathJoinAll(a, ps) ==
    IF ps = <<>> THEN a ELSE PathJoinAll(PathJoin(a, ps[1]), Tail(ps))

----------------------------------------------------------------------------
(* Environment accessors                                                   *)

EESSI_RPATH_OVERRIDE_ATTR == "orig_rpath_override_dirs"

\* A raised EasyBuildError, or the returned value.
Raise == [raised |-> TRUE, value |-> <<>>]
Return(v) == [raised |-> FALSE, value |-> v]

\* Mutant: an empty value is taken for an unset variable ("if not value").
get_eessi_envvar_falsy(eessi_envvar) ==
    IF eessi_envvar \notin DOMAIN environ \/ environ[eessi_envvar] = <<>>
    THEN Raise
    ELSE Return(environ[eessi_envvar])

get_eessi_envvar(eessi_envvar) ==
    IF eessi_envvar \notin DOMAIN environ
    THEN Raise
    ELSE Return(environ[eessi_envvar])

get_rpath_override_dirs(software_name) ==
    LET eessi_software_path == get_eessi_envvar("EESSI_SOFTWARE_PATH")
        eessi_pilot_version == get_eessi_envvar("EESSI_PILOT_VERSION")
    IN
    IF eessi_software_path.raised \/ eessi_pilot_version.raised THEN Raise
    ELSE
        LET rpath_injection_stub ==
                PathJoinAll(
                    ReplaceFirst(eessi_software_path.value,
                                 eessi_pilot_version.value,
                                 PathJoin(<<"host_injections">>, eessi_pilot_version.value)),
                    << <<"rpath_overrides">>, software_name, <<"system">> >>)
        IN Return(<< PathJoin(rpath_injection_stub, <<"lib">>),
                     PathJoin(rpath_injection_stub, <<"lib64">>) >>)

----------------------------------------------------------------------------
(* pre_prepare_hook / post_prepare_hook                                    *)

\* The build-step objects and self.toolchain.mpi_family() of each
\* (the empty string stands for None: no MPI family in the toolchain).
Objs == {"eb_foss", "eb_iimpi", "eb_gcc"}

mpi_family(self) ==
    CASE self = "eb_foss"  -> <<"OpenMPI">>
      [] self = "eb_iimpi" -> <<"IntelMPI">>
      [] OTHER             -> <<>>

hasattr(self) == self \in DOMAIN attrs
setattr(as, self, v) == [o \in (DOMAIN as) \cup {self} |-> IF o = self THEN v ELSE as[o]]
delattr(as, self) == [o \in (DOMAIN as) \ {self} |-> as[o]]

\* What a hook did: whether it raised, and the state it left.
Outcome(r, opt, as) == [raised |-> r, rpath_override_dirs |-> opt, attrs |-> as]

\* Mutant: the attribute is stashed before the "already has attribute" check.
pre_prepare_hook_body_stash_first(self) ==
    IF mpi_family(self) = <<>> THEN Outcome(FALSE, rpath_override_dirs, attrs)
    ELSE
        LET mpi_rpath_override_dirs == get_rpath_override_dirs(mpi_family(self)) IN
        IF mpi_rpath_override_dirs.raised THEN Outcome(TRUE, rpath_override_dirs, attrs)
        ELSE IF hasattr(self)
        THEN Outcome(TRUE, rpath_override_dirs, setattr(attrs, self, rpath_override_dirs))
        ELSE
            LET orig == rpath_override_dirs
                new == IF orig # <<>>
                       THEN StrJoin(<<":">>, <<orig>> \o mpi_rpath_override_dirs.value)
                       ELSE StrJoin(<<":">>, mpi_rpath_override_dirs.value)
            IN Outcome(FALSE, new, setattr(attrs, self, orig))

pre_prepare_hook_body(self) ==
    IF mpi_family(self) = <<>> THEN Outcome(FALSE, rpath_override_dirs, attrs)
    ELSE
        LET mpi_rpath_override_dirs == get_rpath_override_dirs(mpi_family(self)) IN
        IF mpi_rpath_override_dirs.raised THEN Outcome(TRUE, rpath_override_dirs, attrs)
        ELSE IF hasattr(self) THEN Outcome(TRUE, rpath_override_dirs, attrs)
        ELSE
            LET orig == rpath_override_dirs
                new == IF orig # <<>>
                       THEN StrJoin(<<":">>, <<orig>> \o mpi_rpath_override_dirs.value)
                       ELSE StrJoin(<<":">>, mpi_rpath_override_dirs.value)
            IN Outcome(FALSE, new, setattr(attrs, self, orig))

\* Mutant: the option is reset but the attribute is kept.
post_prepare_hook_body_keep_attr(self) ==
    IF hasattr(self)
    THEN Outcome(FALSE, attrs[self], attrs)
    ELSE Outcome(FALSE, rpath_override_dirs, attrs)

post_prepare_hook_body(self) ==
    IF hasattr(self)
    THEN Outcome(FALSE, attrs[self], delattr(attrs, self))
    ELSE Outcome(FALSE, rpath_override_dirs, attrs)

\* One entry of the invocation history.
PrepareCall(hook, self, out) ==
    [hook |-> hook, self |-> self, raised |-> out.raised,
     option_before |-> rpath_override_dirs, attrs_before |-> attrs]

Log(h, c) == IF Len(h) < HistLen THEN Append(h, c) ELSE Append(Tail(h), c)

pre_prepare_hook(self) ==
    /\ ncalls < MaxCalls
    /\ LET out == pre_prepare_hook_body(self) IN
        /\ rpath_override_dirs' = out.rpath_override_dirs
        /\ attrs' = out.attrs
        /\ hist' = Log(hist, PrepareCall("pre_prepare_hook", self, out))
    /\ ncalls' = ncalls + 1
    /\ UNCHANGED <<environ, ecVars, fsVars>>

post_prepare_hook(self) ==
    /\ ncalls < MaxCalls
    /\ LET out == post_prepare_hook_body(self) IN
        /\ rpath_override_dirs' = out.rpath_override_dirs
        /\ attrs' = out.attrs
        /\ hist' = Log(hist, PrepareCall("post_prepare_hook", self, out))
    /\ ncalls' = ncalls + 1
    /\ UNCHANGED <<environ, ecVars, fsVars>>

\* The parts of the state a hook of another group never touches.
NoEc == [name |-> ""]
NoHost == [arch |-> ""]
NoFiles == [p \in {} |-> ""]

\* Inputs: values of $EESSI_SOFTWARE_PATH, $EESSI_PILOT_VERSION and of the option.
PilotVersion == <<"2021", ".", "12">>
SoftwarePaths ==
    { <<"/", "cvmfs", "/", "versions">> \o <<"/">> \o PilotVersion \o <<"/", "software">>,
      <<"/", "opt", "/", "software">> }
PrepareEnvs ==
    { [v \in D |-> IF v = "EESSI_SOFTWARE_PATH" THEN sp ELSE pv] :
        D \in SUBSET {"EESSI_SOFTWARE_PATH", "EESSI_PILOT_VERSION"},
        sp \in SoftwarePaths, pv \in {PilotVersion, <<>>} }
RpathOptions == { <<>>, <<"/", "opt", "/", "lib">> }

InitPrepare ==
    /\ environ \in PrepareEnvs
    /\ rpath_override_dirs \in RpathOptions
    /\ attrs = [o \in {} |-> <<>>]
    /\ ec = NoEc /\ host = NoHost
    /\ installdir = <<>> /\ fs = NoFiles /\ eula = <<>> /\ ln_ok = TRUE
    /\ hist = <<>>
    /\ ncalls = 0

NextPrepare ==
    \/ \E self \in Objs : pre_prepare_hook(self)
    \/ \E self \in Objs : post_prepare_hook(self)

SpecPrepare == InitPrepare /\ [][NextPrepare]_vars

----------------------------------------------------------------------------
(* Properties of the pre-prepare / post-prepare protocol                   *)

\* The last invocation, the one before it, and the one before that.
Last == hist[Len(hist)]
Prev == hist[Len(hist) - 1]
Prev2 == hist[Len(hist) - 2]

\* post_prepare_hook has just run on the object on which pre_prepare_hook ran
\* right before, the object not carrying the attribute when pre_prepare_hook
\* was invoked (an object that carries it makes pre_prepare_hook raise).
RoundTripDone ==
    /\ Len(hist) >= 2
    /\ Last.hook = "post_prepare_hook"
    /\ Prev.hook = "pre_prepare_hook"
    /\ Prev.self = Last.self
    /\ Prev.self \notin DOMAIN Prev.attrs_before

\* C1: after pre_prepare_hook followed by post_prepare_hook on one object
\* (with or without an MPI family, the option empty or not), the object has no
\* orig_rpath_override_dirs attribute and the option rpath_override_dirs has
\* the value it had before pre_prepare_hook ran.
C1_RoundTripRestores ==
    RoundTripDone =>
        /\ ~hasattr(Last.self)
        /\ rpath_override_dirs = Prev.option_before

\* A round trip on an object with an MPI family, from a non-empty option that
\* pre_prepare_hook changed.
C1_Witness ==
    /\ RoundTripDone
    /\ mpi_family(Last.self) # <<>>
    /\ Prev.option_before # <<>>
    /\ Last.option_before # Prev.option_before
    /\ Last.self \in DOMAIN Last.attrs_before

\* pre, pre (raises), post on one object.
FailedSecondPre ==
    /\ Len(hist) >= 3
    /\ Prev2.hook = "pre_prepare_hook" /\ ~Prev2.raised
    /\ Prev.hook = "pre_prepare_hook" /\ Prev.raised
    /\ Last.hook = "post_prepare_hook"
    /\ Prev2.self = Prev.self /\ Prev.self = Last.self

\* C10: a pre_prepare_hook that raises leaves the option and the attribute of
\* every object as they were; and after pre, pre (raises), post on one object
\* the option has the value it had before the first pre_prepare_hook.
C10_FailedPreChangesNothing ==
    /\ (Len(hist) >= 1 /\ Last.hook = "pre_prepare_hook" /\ Last.raised) =>
            /\ rpath_override_dirs = Last.option_before
            /\ attrs = Last.attrs_before
    /\ FailedSecondPre => rpath_override_dirs = Prev2.option_before

\* The three-call sequence, where the first pre_prepare_hook changed the option.
C10_Witness ==
    /\ FailedSecondPre
    /\ Prev.option_before # Prev2.option_before
    /\ Prev.self \in DOMAIN Prev.attrs_before

----------------------------------------------------------------------------
(* GPU property injector                                                   *)

CUDA_ENABLED_TOOLCHAINS ==
    { "fosscuda", "gcccuda", "gimpic", "giolfc", "gmklc", "golfc", "gomklc",
      "gompic", "goolfc", "iccifortcuda", "iimklc", "iimpic", "intelcuda",
      "iomklc", "iompic", "nvompic", "nvpsmpic" }

Range(list) == { list[i] : i \in 1..Len(list) }

\* Python: list.remove(x), the first element equal to x
RemoveFirst(list, x) ==
    LET i == CHOOSE k \in 1..Len(list) :
                 list[k] = x /\ \A j \in 1..(k - 1) : list[j] # x
    IN SubSeq(list, 1, i - 1) \o SubSeq(list, i + 1, Len(list))

\* A dependency is a tuple (name, version); dep[1] is Python's dep[0].
DepName(dep) == dep[1]
DepVersion(dep) == dep[2]

\* The loop "for dep in iter(ec_dict['dependencies'])": the list iterator
\* holds an index into the list, and the body removes from that same list.
\* i is the (1-based) index of the element the iterator yields next.
RECURSIVE cuda_loop(_, _, _, _)
cuda_loop(deps, bdeps, i, cuda_version) ==
    IF i > Len(deps)
    THEN [dependencies |-> deps, builddependencies |-> bdeps,
          cuda_version |-> cuda_version]
    ELSE
        LET dep == deps[i] IN
        IF Contains(DepName(dep), <<"CUDA">>)
        THEN cuda_loop(RemoveFirst(deps, dep),
                       IF dep \notin Range(bdeps) THEN Append(bdeps, dep) ELSE bdeps,
                       i + 1, DepVersion(dep))
        ELSE cuda_loop(deps, bdeps, i + 1, cuda_version)

ADD_PROPERTY == <<"add_property(\"arch\",\"gpu\")">>
\* 'setenv("EESSICUDAVERSION","%s")' % cuda_version
SetenvLine(cuda_version) ==
    <<"setenv(\"EESSICUDAVERSION\",\"">> \o cuda_version \o <<"\")">>

\* ec[key] = value
SetParam(cfg, key, value) ==
    [k \in (DOMAIN cfg) \cup {key} |-> IF k = key THEN value ELSE cfg[k]]

\* Whether the condition of lines 268-271 holds.
InjectionTriggered(cfg) ==
    \/ <<"CUDA">> \in { DepName(cfg.dependencies[i]) : i \in 1..Len(cfg.dependencies) }
    \/ cfg.toolchain \in CUDA_ENABLED_TOOLCHAINS

\* ec.asdict() hands out the lists of the easyconfig themselves (the parse hook
\* runs with templating disabled), so the removals and appends act on ec.
inject_gpu_property(cfg) ==
    IF ~InjectionTriggered(cfg) THEN cfg
    ELSE
        LET key == "modluafooter"
            loop == cuda_loop(cfg.dependencies, cfg.builddependencies, 1, <<"0">>)
            value == StrJoin(<<"\n">>, <<ADD_PROPERTY, SetenvLine(loop.cuda_version)>>)
            moved == [cfg EXCEPT !.dependencies = loop.dependencies,
                                 !.builddependencies = loop.builddependencies]
        IN
        IF key \in DOMAIN cfg
        THEN IF ~Contains(cfg[key], value)
             THEN SetParam(moved, key, StrJoin(<<"\n">>, <<cfg[key], value>>))
             ELSE moved
        ELSE SetParam(moved, key, value)

\* One entry of the invocation history of the hooks that act on ec and fs.
Call(hook, arg, raised, returned) ==
    [hook |-> hook, arg |-> arg, raised |-> raised, returned |-> returned,
     ec_before |-> ec, fs_before |-> fs]

\* inject_gpu_property invoked on its own, as often as MaxInjectCalls allows.
inject_gpu_property_call ==
    /\ ncalls < MaxInjectCalls
    /\ ec' = inject_gpu_property(ec)
    /\ hist' = Log(hist, Call("inject_gpu_property", <<>>, FALSE, <<>>))
    /\ ncalls' = ncalls + 1
    /\ UNCHANGED <<environ, prepVars, host, fsVars>>

\* Inputs of the injector.  Every easyconfig has the parameter modluafooter
\* (empty by default), so ec.asdict() always holds the key.
CUDA114 == << <<"CUDA">>, <<"11", ".", "4">> >>
CUDA115 == << <<"CUDA">>, <<"11", ".", "5">> >>
ZLIB == << <<"zlib">>, <<"1", ".", "2">> >>
DepUniverse == {CUDA114, CUDA115, ZLIB}

\* The lists of at most n distinct dependencies.
ListsUpTo(n) ==
    { l \in UNION { [1..k -> DepUniverse] : k \in 0..n } :
        \A i, j \in 1..Len(l) : i # j => l[i] # l[j] }

Footers ==
    { <<>>,
      <<"whatis(\"GPU build\")">>,
      StrJoin(<<"\n">>, <<ADD_PROPERTY, SetenvLine(<<"11", ".", "4">>)>>) }

InjectEcs ==
    { [name |-> "GROMACS", toolchain |-> tc, dependencies |-> deps,
       builddependencies |-> bdeps, modluafooter |-> footer] :
        tc \in {"foss", "fosscuda"}, deps \in ListsUpTo(MaxDeps),
        bdeps \in ListsUpTo(MaxBuildDeps), footer \in Footers }

InitInject ==
    /\ ec \in InjectEcs
    /\ host = NoHost
    /\ environ = [v \in {} |-> <<>>]
    /\ rpath_override_dirs = <<>> /\ attrs = [o \in {} |-> <<>>]
    /\ installdir = <<>> /\ fs = NoFiles /\ eula = <<>> /\ ln_ok = TRUE
    /\ hist = <<>>
    /\ ncalls = 0

NextInject == inject_gpu_property_call

SpecInject == InitInject /\ [][NextInject]_vars

----------------------------------------------------------------------------
(* Properties of the GPU property injector                                 *)

IsCudaEntry(dep) == DepName(dep) = <<"CUDA">>
CudaEntries(deps) == { d \in Range(deps) : IsCudaEntry(d) }
Occurrences(list, x) == Cardinality({ i \in 1..Len(list) : list[i] = x })
Footer(cfg) == IF "modluafooter" \in DOMAIN cfg THEN cfg.modluafooter ELSE <<>>

InjectJustRan == Len(hist) >= 1 /\ Last.hook = "inject_gpu_property"

\* C3: after inject_gpu_property on a configuration with one or more CUDA
\* entries among its runtime dependencies (at any positions), the runtime
\* list holds no CUDA entry, every CUDA entry is in the build-dependency list
\* exactly once, and modluafooter holds the add_property line and the setenv
\* line with the version of a CUDA dependency.
C3_CudaBecomesBuildOnly ==
    (InjectJustRan /\ CudaEntries(Last.ec_before.dependencies) # {}) =>
        /\ CudaEntries(ec.dependencies) = {}
        /\ \A d \in CudaEntries(Last.ec_before.dependencies) :
                Occurrences(ec.builddependencies, d) = 1
        /\ Contains(Footer(ec), ADD_PROPERTY)
        /\ \E d \in CudaEntries(Last.ec_before.dependencies) :
                Contains(Footer(ec), SetenvLine(DepVersion(d)))

\* C9: when the configuration given to the first invocation triggers the
\* injection, every later invocation of inject_gpu_property leaves
\* modluafooter as the first invocation left it.
C9_FooterInjectedOnce ==
    (/\ InjectJustRan
     /\ ncalls >= 2 /\ ncalls <= Len(hist)
     /\ InjectionTriggered(hist[1].ec_before)) =>
        Footer(ec) = Footer(hist[2].ec_before)

----------------------------------------------------------------------------
(* Package patchers                                                        *)

POWER == "POWER"
X86_64 == "x86_64"
AARCH64 == "AArch64"
OPTARCH_GENERIC == "GENERIC"

get_cpu_architecture == host.arch
get_cpu_features == host.cpu_features

\* What a patcher or a hook on the easyconfig did.
EcRaise(cfg) == [raised |-> TRUE, ec |-> cfg]
EcReturn(cfg) == [raised |-> FALSE, ec |-> cfg]

\* EasyConfig.update(key, value) on a string parameter: '%s %s ' % (prev, value)
Update(cfg, key, value) == [cfg EXCEPT ![key] = cfg[key] \o <<" ">> \o value \o <<" ">>]

\* Mutant: the options are set on every architecture.
cgal_toolchainopts_precise_no_arch_guard(cfg, eprefix) ==
    IF cfg.name = "CGAL"
    THEN EcReturn([cfg EXCEPT !.toolchainopts =
                        SetParam(SetParam(cfg.toolchainopts, "strict", FALSE),
                                 "precise", TRUE)])
    ELSE EcRaise(cfg)

cgal_toolchainopts_precise(cfg, eprefix) ==
    IF cfg.name = "CGAL"
    THEN IF get_cpu_architecture = POWER
         THEN EcReturn([cfg EXCEPT !.toolchainopts =
                            SetParam(SetParam(cfg.toolchainopts, "strict", FALSE),
                                     "precise", TRUE)])
         ELSE EcReturn(cfg)
    ELSE EcRaise(cfg)

fontconfig_add_fonts(cfg, eprefix) ==
    IF cfg.name = "fontconfig"
    THEN LET with_add_fonts ==
                <<"--with-add-fonts=">>
                    \o PathJoinAll(eprefix, << <<"usr">>, <<"share">>, <<"fonts">> >>)
         IN EcReturn(Update(cfg, "configopts", with_add_fonts))
    ELSE EcRaise(cfg)

\* Mutant: the else branch is missing, a wrong package passes silently.
ucx_eprefix_no_else(cfg, eprefix) ==
    IF cfg.name = "UCX"
    THEN EcReturn(Update(Update(cfg, "configopts", <<"--with-sysroot=">> \o eprefix),
                         "configopts",
                         <<"--with-rdmacm=">> \o PathJoin(eprefix, <<"usr">>)))
    ELSE EcReturn(cfg)

ucx_eprefix(cfg, eprefix) ==
    IF cfg.name = "UCX"
    THEN EcReturn(Update(Update(cfg, "configopts", <<"--with-sysroot=">> \o eprefix),
                         "configopts",
                         <<"--with-rdmacm=">> \o PathJoin(eprefix, <<"usr">>)))
    ELSE EcRaise(cfg)

libfabric_disable_psm3_x86_64_generic(cfg) ==
    IF cfg.name = "libfabric"
    THEN IF get_cpu_architecture = X86_64
         THEN LET generic == host.optarch = OPTARCH_GENERIC
                  no_avx == "avx" \notin get_cpu_features
              IN IF generic \/ no_avx
                 THEN EcReturn(Update(cfg, "configopts", <<"--disable-psm3">>))
                 ELSE EcReturn(cfg)
         ELSE EcReturn(cfg)
    ELSE EcRaise(cfg)

\* re.compile(r"\$EBROOTZLIB/lib/libz.a"): the "." of the pattern stands for
\* any one character.
OneChar == {"/", ".", " ", ":", "-", "_"}
LibzPattern(c) == <<"$EBROOTZLIB", "/", "lib", "/", "libz", c, "a">>
LibzMatchAt(s, i) == \E c \in OneChar : StartsAt(s, LibzPattern(c), i)

\* regex.sub(repl, s): every match, left to right, from position i on
RECURSIVE LibzSub(_, _, _)
LibzSub(s, i, repl) ==
    IF i > Len(s) THEN <<>>
    ELSE IF LibzMatchAt(s, i)
         THEN repl \o LibzSub(s, i + Len(LibzPattern(".")), repl)
         ELSE <<s[i]>> \o LibzSub(s, i + 1, repl)

metabat_preconfigure(cfg) ==
    IF cfg.name = "MetaBAT"
    THEN EcReturn([cfg EXCEPT !.configopts =
            LibzSub(cfg.configopts, 1,
                    <<"$EPREFIX", "/", "usr", "/", "lib64", "/", "libz", ".", "so">>)])
    ELSE EcRaise(cfg)

wrf_preconfigure(cfg) ==
    IF cfg.name = "WRF"
    THEN IF get_cpu_architecture = AARCH64
         THEN EcReturn(Update(cfg, "preconfigopts",
                <<"sed -i 's/Linux x86_64 ppc64le, gfortran/Linux x86_64 aarch64 ppc64le, gfortran/g' arch/configure_new.defaults && ">>))
         ELSE EcReturn(cfg)
    ELSE EcRaise(cfg)

----------------------------------------------------------------------------
(* CUDA redistribution filter                                              *)

\* A line of EULA.txt is the list of its words (line.split()); a word is a
\* string.  line.strip() == marker compares a line with a marker's words.
MARKER_A == << <<"2", ".", "6", ".">>, <<"Attachment">>, <<"A">> >>
MARKER_B == << <<"2", ".", "7", ".">>, <<"Attachment">>, <<"B">> >>

\* The lines between the markers (lines 222-233).
RECURSIVE tmp_buffer(_, _)
tmp_buffer(lines, copy) ==
    IF lines = <<>> THEN <<>>
    ELSE IF Head(lines) = MARKER_A THEN tmp_buffer(Tail(lines), TRUE)
    ELSE IF Head(lines) = MARKER_B THEN tmp_buffer(Tail(lines), FALSE)
    ELSE IF copy THEN <<Head(lines)>> \o tmp_buffer(Tail(lines), copy)
    ELSE tmp_buffer(Tail(lines), copy)

file_extensions == { <<".", "s", "o">>, <<".", "a">>, <<".", "h">>, <<".", "b", "c">> }

\* Python: s.split(".")[0]
Stem(s) ==
    IF Contains(s, <<".">>) THEN SubSeq(s, 1, Find(s, <<".">>) - 1) ELSE s

\* The whitelist of file stems (lines 235-241).
Whitelist(lines) ==
    LET buf == tmp_buffer(lines, FALSE)
        words == UNION { Range(buf[i]) : i \in 1..Len(buf) }
    IN { <<"EULA">> } \cup
       { Stem(word) : word \in { w \in words :
                                   \E ext \in file_extensions : Contains(w, ext) } }

\* Mutant: only the check for nvcc is made.
SanityCheckFails_nvcc_only(whitelist) ==
    <<"nvcc">> \in whitelist

\* The two checks of lines 243-246.
SanityCheckFails(whitelist) ==
    \/ <<"nvcc">> \in whitelist
    \/ <<"libcudart">> \notin whitelist

\* Python: s.replace(old, new), every occurrence, left to right
RECURSIVE ReplaceAll(_, _, _)
ReplaceAll(s, old, new) ==
    LET i == Find(s, old) IN
    IF i = 0 \/ old = <<>> THEN s
    ELSE SubSeq(s, 1, i - 1) \o new
            \o ReplaceAll(SubSeq(s, i + Len(old), Len(s)), old, new)

\* The last component of a path: the filename os.walk yields.
RECURSIVE Filename(_)
Filename(path) ==
    IF Contains(path, <<"/">>)
    THEN Filename(SubSeq(path, Find(path, <<"/">>) + 1, Len(path)))
    ELSE path

RegularFile == [kind |-> "file"]
Symlink(target) == [kind |-> "link", target |-> target]
islink(files, path) == files[path].kind = "link"

\* The files os.walk(self.installdir) yields: every file and symlink below it.
Walk(files) == { p \in DOMAIN files : StartsAt(p, installdir \o <<"/">>, 1) }

\* The files the loop of lines 248-262 replaces.
NotShipped(files, whitelist) ==
    { p \in Walk(files) : ~islink(files, p) /\ Stem(Filename(p)) \notin whitelist }

\* The target of the symlink that replaces source (line 257).
LinkTarget(source) == ReplaceAll(source, <<"versions">>, <<"host_injections">>)

\* os.remove(source)
Remove(files, source) == [p \in (DOMAIN files) \ {source} |-> files[p]]

\* What cuda_postpackage did to the files.
FsRaise(files) == [raised |-> TRUE, fs |-> files]
FsReturn(files) == [raised |-> FALSE, fs |-> files]

\* The outcomes of cuda_postpackage.  os.walk fixes no order of the files, so
\* when "ln -s" fails the file removed before the error is any of those to
\* replace.
cuda_postpackage ==
    LET whitelist == Whitelist(eula) IN
    IF SanityCheckFails(whitelist) THEN { FsRaise(fs) }
    ELSE
        LET gone == NotShipped(fs, whitelist) IN
        IF gone = {} THEN { FsReturn(fs) }
        ELSE IF ln_ok
        THEN { FsReturn([p \in DOMAIN fs |->
                    IF p \in gone THEN Symlink(LinkTarget(p)) ELSE fs[p]]) }
        ELSE { FsRaise(Remove(fs, source)) : source \in gone }

----------------------------------------------------------------------------
(* Hook dispatcher                                                         *)

PARSE_HOOKS == {"CGAL", "fontconfig", "UCX"}
PRE_CONFIGURE_HOOKS == {"libfabric", "MetaBAT", "WRF"}
POST_PACKAGE_HOOKS == {"CUDA"}

\* PARSE_HOOKS[ec.name](ec, eprefix)
ParsePatcher(cfg, eprefix) ==
    CASE cfg.name = "CGAL" -> cgal_toolchainopts_precise(cfg, eprefix)
      [] cfg.name = "fontconfig" -> fontconfig_add_fonts(cfg, eprefix)
      [] cfg.name = "UCX" -> ucx_eprefix(cfg, eprefix)

\* PRE_CONFIGURE_HOOKS[self.name](self)
PreConfigurePatcher(cfg) ==
    CASE cfg.name = "libfabric" -> libfabric_disable_psm3_x86_64_generic(cfg)
      [] cfg.name = "MetaBAT" -> metabat_preconfigure(cfg)
      [] cfg.name = "WRF" -> wrf_preconfigure(cfg)

parse_hook_body(cfg) ==
    LET eprefix == get_eessi_envvar("EPREFIX") IN
    IF eprefix.raised THEN EcRaise(cfg)
    ELSE
        LET patched == IF cfg.name \in PARSE_HOOKS
                       THEN ParsePatcher(cfg, eprefix.value)
                       ELSE EcReturn(cfg)
        IN IF patched.raised THEN patched
           ELSE EcReturn(inject_gpu_property(patched.ec))

pre_configure_hook_body(cfg) ==
    IF cfg.name \in PRE_CONFIGURE_HOOKS THEN PreConfigurePatcher(cfg)
    ELSE EcReturn(cfg)

\* Mutant: the filter runs for every package.
post_package_hook_body_no_lookup(cfg) ==
    cuda_postpackage

post_package_hook_body(cfg) ==
    IF cfg.name \in POST_PACKAGE_HOOKS THEN cuda_postpackage
    ELSE { FsReturn(fs) }

\* A hook or a patcher that acts on the easyconfig, with its outcome.
EcStep(hook, arg, out) ==
    /\ ncalls < MaxHookCalls
    /\ ec' = out.ec
    /\ hist' = Log(hist, Call(hook, arg, out.raised, <<>>))
    /\ ncalls' = ncalls + 1
    /\ UNCHANGED <<environ, prepVars, host, fsVars>>

parse_hook == EcStep("parse_hook", <<>>, parse_hook_body(ec))

pre_configure_hook == EcStep("pre_configure_hook", <<>>, pre_configure_hook_body(ec))

post_package_hook ==
    /\ ncalls < MaxHookCalls
    /\ \E out \in post_package_hook_body(ec) :
        /\ fs' = out.fs
        /\ hist' = Log(hist, Call("post_package_hook", <<>>, out.raised, <<>>))
    /\ ncalls' = ncalls + 1
    /\ UNCHANGED <<environ, prepVars, ecVars, installdir, eula, ln_ok>>

\* The patchers invoked directly, whatever the package is; those of the parse
\* hook get the value of $EPREFIX as parse_hook passes it.
cgal_toolchainopts_precise_call ==
    /\ "EPREFIX" \in DOMAIN environ
    /\ EcStep("cgal_toolchainopts_precise", environ["EPREFIX"],
              cgal_toolchainopts_precise(ec, environ["EPREFIX"]))

fontconfig_add_fonts_call ==
    /\ "EPREFIX" \in DOMAIN environ
    /\ EcStep("fontconfig_add_fonts", environ["EPREFIX"],
              fontconfig_add_fonts(ec, environ["EPREFIX"]))

ucx_eprefix_call ==
    /\ "EPREFIX" \in DOMAIN environ
    /\ EcStep("ucx_eprefix", environ["EPREFIX"], ucx_eprefix(ec, environ["EPREFIX"]))

libfabric_disable_psm3_x86_64_generic_call ==
    EcStep("libfabric_disable_psm3_x86_64_generic", <<>>,
           libfabric_disable_psm3_x86_64_generic(ec))

metabat_preconfigure_call ==
    EcStep("metabat_preconfigure", <<>>, metabat_preconfigure(ec))

wrf_preconfigure_call ==
    EcStep("wrf_preconfigure", <<>>, wrf_preconfigure(ec))

\* get_eessi_envvar invoked directly on a variable name.
EnvNames == {"EPREFIX", "EESSI_SOFTWARE_PATH"}

get_eessi_envvar_call(eessi_envvar) ==
    /\ ncalls < MaxHookCalls
    /\ LET out == get_eessi_envvar(eessi_envvar) IN
        hist' = Log(hist, Call("get_eessi_envvar", eessi_envvar, out.raised, out.value))
    /\ ncalls' = ncalls + 1
    /\ UNCHANGED <<environ, prepVars, ecVars, fsVars>>

\* cuda_postpackage invoked on the build of CUDA.
cuda_postpackage_call ==
    /\ ncalls < MaxCudaCalls
    /\ \E out \in cuda_postpackage :
        /\ fs' = out.fs
        /\ hist' = Log(hist, Call("cuda_postpackage", <<>>, out.raised, <<>>))
    /\ ncalls' = ncalls + 1
    /\ UNCHANGED <<environ, prepVars, ecVars, installdir, eula, ln_ok>>

----------------------------------------------------------------------------
(* Inputs and specifications of the hooks and of the CUDA filter           *)

CudaInstallDir == <<"/", "cvmfs", "/", "versions", "/", "software", "/", "CUDA">>
OtherInstallDir == <<"/", "opt", "/", "CUDA">>

\* The lines EULA.txt is made of.
LinuxLibs == << <<"Linux", ":">>, <<"libcudart", ".", "s", "o", ",">>,
                <<"libcudart_static", ".", "a">> >>
NvvmLibs == << <<"libnvvm", ".", "s", "o">> >>
Drifted == << <<"nvcc", ".", "h">> >>
EulaLines == {MARKER_A, MARKER_B, LinuxLibs, NvvmLibs, Drifted}
Eulas == UNION { [1..n -> EulaLines] : n \in 0..MaxEulaLines }

\* The files of an install tree besides EULA.txt, relative to installdir.
TreeFiles ==
    { <<"lib64", "/", "libcudart", ".", "s", "o">>,
      <<"nvvm", "/", "libnvvm", ".", "s", "o">>,
      <<"bin", "/", "nvcc">> }
ElsewherePath == <<"/", "usr", "/", "lib64", "/", "stubs">>

\* The trees: EULA.txt, and each other file absent, a regular file or a symlink.
Trees(dir) ==
    { [p \in { PathJoin(dir, rel) : rel \in ({<<"EULA", ".", "t", "x", "t">>} \cup present) } |->
            IF p \in { PathJoin(dir, rel) : rel \in links }
            THEN Symlink(ElsewherePath) ELSE RegularFile] :
        present \in SUBSET TreeFiles, links \in SUBSET TreeFiles }

InitCuda ==
    /\ ec = [name |-> "CUDA"]
    /\ host = NoHost
    /\ environ = [v \in {} |-> <<>>]
    /\ rpath_override_dirs = <<>> /\ attrs = [o \in {} |-> <<>>]
    /\ installdir \in {CudaInstallDir, OtherInstallDir}
    /\ fs \in Trees(installdir)
    /\ eula \in Eulas
    /\ ln_ok \in BOOLEAN
    /\ hist = <<>>
    /\ ncalls = 0

NextCuda == cuda_postpackage_call

SpecCuda == InitCuda /\ [][NextCuda]_vars

\* Inputs of the hooks: the package, its parameters, the host, $EPREFIX.
PackageNames ==
    {"CGAL", "fontconfig", "UCX", "libfabric", "MetaBAT", "WRF", "CUDA", "zlib"}

GpuParams ==
    { [toolchain |-> "foss", dependencies |-> <<ZLIB>>],
      [toolchain |-> "fosscuda", dependencies |-> <<ZLIB, CUDA114>>] }

OptParams ==
    { [configopts |-> <<>>, toolchainopts |-> [k \in {} |-> TRUE]],
      [configopts |-> <<"CC=gcc", " ">> \o LibzPattern(".") \o <<" ">> \o LibzPattern("_"),
       toolchainopts |-> [k \in {"strict"} |-> TRUE]] }

HookEcs ==
    { [name |-> n, toolchain |-> g.toolchain, dependencies |-> g.dependencies,
       builddependencies |-> <<>>, modluafooter |-> <<>>,
       toolchainopts |-> o.toolchainopts, configopts |-> o.configopts,
       preconfigopts |-> <<>>] :
        n \in PackageNames, g \in GpuParams, o \in OptParams }

Hosts ==
    { [arch |-> POWER, optarch |-> "", cpu_features |-> {"altivec"}],
      [arch |-> AARCH64, optarch |-> "", cpu_features |-> {"asimd"}],
      [arch |-> X86_64, optarch |-> "", cpu_features |-> {"sse2", "avx"}],
      [arch |-> X86_64, optarch |-> OPTARCH_GENERIC, cpu_features |-> {"sse2", "avx"}],
      [arch |-> X86_64, optarch |-> "", cpu_features |-> {"sse2"}] }

EprefixValues == { <<>>, <<"/", "compat">>, <<"/", "compat", "/">> }
HookEnvs ==
    { [v \in {} |-> <<>>] } \cup { [v \in {"EPREFIX"} |-> e] : e \in EprefixValues }

InitHooks ==
    /\ ec \in HookEcs
    /\ host \in Hosts
    /\ environ \in HookEnvs
    /\ rpath_override_dirs = <<>> /\ attrs = [o \in {} |-> <<>>]
    /\ installdir = CudaInstallDir
    /\ fs = [p \in { PathJoin(CudaInstallDir, rel) :
                        rel \in {<<"EULA", ".", "t", "x", "t">>} \cup TreeFiles } |->
                RegularFile]
    /\ eula = <<MARKER_A, LinuxLibs, MARKER_B>>
    /\ ln_ok = TRUE
    /\ hist = <<>>
    /\ ncalls = 0

NextHooks ==
    \/ parse_hook
    \/ pre_configure_hook
    \/ post_package_hook
    \/ cgal_toolchainopts_precise_call
    \/ fontconfig_add_fonts_call
    \/ ucx_eprefix_call
    \/ libfabric_disable_psm3_x86_64_generic_call
    \/ metabat_preconfigure_call
    \/ wrf_preconfigure_call
    \/ \E eessi_envvar \in EnvNames : get_eessi_envvar_call(eessi_envvar)

SpecHooks == InitHooks /\ [][NextHooks]_vars

----------------------------------------------------------------------------
(* Properties of the dispatcher, the patchers and the accessors            *)

Ran(hook) == Len(hist) >= 1 /\ Last.hook = hook
NothingChanged == ec = Last.ec_before /\ fs = Last.fs_before

\* The original statement of C2: each dispatching hook, on a package that is
\* not in its table, raises nothing and changes nothing.
C2_UnmatchedIsNoOp ==
    /\ (Ran("parse_hook") /\ Last.ec_before.name \notin PARSE_HOOKS) =>
            (~Last.raised /\ NothingChanged)
    /\ (Ran("pre_configure_hook") /\ Last.ec_before.name \notin PRE_CONFIGURE_HOOKS) =>
            (~Last.raised /\ NothingChanged)
    /\ (Ran("post_package_hook") /\ Last.ec_before.name \notin POST_PACKAGE_HOOKS) =>
            (~Last.raised /\ NothingChanged)

\* The parameters other than those the GPU injector writes.
SameButGpuParams(a, b) ==
    /\ DOMAIN a = DOMAIN b
    /\ \A k \in (DOMAIN a) \ {"dependencies", "builddependencies", "modluafooter"} :
            a[k] = b[k]

\* C2: pre_configure_hook and post_package_hook, on a package that is not in
\* their table, raise nothing and change nothing.  parse_hook on a package
\* that is not in PARSE_HOOKS raises exactly when $EPREFIX is unset, and then
\* changes nothing; with $EPREFIX set it changes nothing when the
\* configuration does not trigger the GPU injection, and otherwise it changes
\* at most dependencies, builddependencies and modluafooter.
C2_UnmatchedDispatch ==
    /\ (Ran("parse_hook") /\ Last.ec_before.name \notin PARSE_HOOKS) =>
            /\ Last.raised <=> "EPREFIX" \notin DOMAIN environ
            /\ fs = Last.fs_before
            /\ (Last.raised \/ ~InjectionTriggered(Last.ec_before)) => ec = Last.ec_before
            /\ SameButGpuParams(ec, Last.ec_before)
    /\ (Ran("pre_configure_hook") /\ Last.ec_before.name \notin PRE_CONFIGURE_HOOKS) =>
            (~Last.raised /\ NothingChanged)
    /\ (Ran("post_package_hook") /\ Last.ec_before.name \notin POST_PACKAGE_HOOKS) =>
            (~Last.raised /\ NothingChanged)

\* post_package_hook and then parse_hook on a package in neither table, with
\* $EPREFIX set and a configuration that triggers the GPU injection.
C2_Witness ==
    /\ Len(hist) = 2
    /\ Prev.hook = "post_package_hook" /\ Prev.ec_before.name \notin POST_PACKAGE_HOOKS
    /\ Last.hook = "parse_hook" /\ Last.ec_before.name \notin PARSE_HOOKS
    /\ ~Last.raised
    /\ InjectionTriggered(Last.ec_before)
    /\ ec # Last.ec_before

\* The package each patcher is written for.
OwnName ==
    [cgal_toolchainopts_precise |-> "CGAL",
     fontconfig_add_fonts |-> "fontconfig",
     ucx_eprefix |-> "UCX",
     libfabric_disable_psm3_x86_64_generic |-> "libfabric",
     metabat_preconfigure |-> "MetaBAT",
     wrf_preconfigure |-> "WRF"]

PatcherRan == Len(hist) >= 1 /\ Last.hook \in DOMAIN OwnName

\* Python: s.split(" ") without the empty strings
RECURSIVE Flags(_)
Flags(s) ==
    IF s = <<>> THEN <<>>
    ELSE IF s[1] = " " THEN Flags(Tail(s))
    ELSE LET n == IF Contains(s, <<" ">>) THEN Find(s, <<" ">>) - 1 ELSE Len(s)
         IN <<SubSeq(s, 1, n)>> \o Flags(SubSeq(s, n + 1, Len(s)))

\* The flags appended to configopts by the last invocation.
AppendedFlags ==
    LET old == Last.ec_before.configopts
        new == ec.configopts
    IN IF Len(new) >= Len(old) /\ SubSeq(new, 1, Len(old)) = old
       THEN Flags(SubSeq(new, Len(old) + 1, Len(new)))
       ELSE << <<"configopts rewritten">> >>

MismatchRaises ==
    (PatcherRan /\ Last.ec_before.name # OwnName[Last.hook]) =>
        (Last.raised /\ NothingChanged)

\* The original statement of C6: a patcher invoked for another package raises
\* and changes nothing; fontconfig_add_fonts appends exactly
\* --with-add-fonts=<EPREFIX>/usr/share/fonts, and ucx_eprefix appends exactly
\* --with-sysroot=<EPREFIX> and --with-rdmacm=<EPREFIX>/usr.
C6_ExactFlags ==
    /\ MismatchRaises
    /\ (Ran("fontconfig_add_fonts") /\ Last.ec_before.name = "fontconfig") =>
            /\ ~Last.raised
            /\ AppendedFlags =
                << <<"--with-add-fonts=">> \o Last.arg
                        \o <<"/", "usr", "/", "share", "/", "fonts">> >>
    /\ (Ran("ucx_eprefix") /\ Last.ec_before.name = "UCX") =>
            /\ ~Last.raised
            /\ AppendedFlags =
                << <<"--with-sysroot=">> \o Last.arg,
                   <<"--with-rdmacm=">> \o Last.arg \o <<"/", "usr">> >>

\* The "/" between <EPREFIX> and the rest of a path: none when <EPREFIX> is
\* empty or ends in "/".
Slash(eprefix) ==
    IF eprefix = <<>> \/ eprefix[Len(eprefix)] = "/" THEN <<>> ELSE <<"/">>

\* C6: as the original statement, but the "/" after <EPREFIX> in
\* --with-add-fonts and --with-rdmacm is left out when <EPREFIX> is empty or
\* already ends in "/".
C6_PatcherGuards ==
    /\ MismatchRaises
    /\ (Ran("fontconfig_add_fonts") /\ Last.ec_before.name = "fontconfig") =>
            /\ ~Last.raised
            /\ AppendedFlags =
                << <<"--with-add-fonts=">> \o Last.arg \o Slash(Last.arg)
                        \o <<"usr", "/", "share", "/", "fonts">> >>
    /\ (Ran("ucx_eprefix") /\ Last.ec_before.name = "UCX") =>
            /\ ~Last.raised
            /\ AppendedFlags =
                << <<"--with-sysroot=">> \o Last.arg,
                   <<"--with-rdmacm=">> \o Last.arg \o Slash(Last.arg) \o <<"usr">> >>

\* ucx_eprefix on UCX after a patcher that was invoked for another package,
\* with configure options already present and $EPREFIX ending in "/".
C6_Witness ==
    /\ Len(hist) = 2
    /\ Prev.hook \in DOMAIN OwnName /\ Prev.ec_before.name # OwnName[Prev.hook]
    /\ Prev.raised
    /\ Last.hook = "ucx_eprefix" /\ Last.ec_before.name = "UCX"
    /\ Last.ec_before.configopts # <<>>
    /\ Last.arg = <<"/", "compat", "/">>
    /\ host.arch = AARCH64

CgalRan == Ran("cgal_toolchainopts_precise") /\ Last.ec_before.name = "CGAL"

\* The original statement of C7: cgal_toolchainopts_precise on CGAL sets
\* strict=False and precise=True on POWER and on every other architecture.
C7_NoArchGuard ==
    CgalRan =>
        /\ "strict" \in DOMAIN ec.toolchainopts /\ ~ec.toolchainopts["strict"]
        /\ "precise" \in DOMAIN ec.toolchainopts /\ ec.toolchainopts["precise"]

\* C7: cgal_toolchainopts_precise on CGAL sets strict=False and precise=True
\* (and nothing else) on POWER; on any other architecture it leaves the
\* configuration as it was.
C7_PowerOnly ==
    CgalRan =>
        /\ ~Last.raised
        /\ IF host.arch = POWER
           THEN /\ DOMAIN ec.toolchainopts =
                        (DOMAIN Last.ec_before.toolchainopts) \cup {"strict", "precise"}
                /\ ~ec.toolchainopts["strict"]
                /\ ec.toolchainopts["precise"]
                /\ \A k \in DOMAIN ec :
                        k # "toolchainopts" => ec[k] = Last.ec_before[k]
           ELSE ec = Last.ec_before

\* The patch applied on POWER to a configuration with strict=True.
C7_Witness ==
    /\ CgalRan
    /\ host.arch = POWER
    /\ "strict" \in DOMAIN Last.ec_before.toolchainopts
    /\ Last.ec_before.toolchainopts["strict"]
    /\ ec # Last.ec_before

\* C8: get_eessi_envvar returns the value of a set variable as it is, the
\* empty string too, and raises for an unset one; parse_hook with $EPREFIX
\* unset raises, for every package, with the configuration unchanged.
C8_EnvvarOrError ==
    /\ Ran("get_eessi_envvar") =>
            IF Last.arg \in DOMAIN environ
            THEN ~Last.raised /\ Last.returned = environ[Last.arg]
            ELSE Last.raised
    /\ (Ran("parse_hook") /\ "EPREFIX" \notin DOMAIN environ) =>
            (Last.raised /\ NothingChanged)

\* get_eessi_envvar raised for $EPREFIX, and then parse_hook raised on a
\* package that has a patcher and would get the GPU properties.
C8_Witness ==
    /\ Len(hist) = 2
    /\ Prev.hook = "get_eessi_envvar" /\ Prev.arg = "EPREFIX" /\ Prev.raised
    /\ Last.hook = "parse_hook" /\ Last.raised
    /\ Last.ec_before.name \in PARSE_HOOKS
    /\ InjectionTriggered(Last.ec_before)

----------------------------------------------------------------------------
(* Properties of the CUDA redistribution filter                            *)

CudaRan == Ran("cuda_postpackage")

\* C4: when the whitelist holds nvcc or lacks libcudart, cuda_postpackage
\* raises with the install tree as it was: no file removed, no symlink made.
C4_SanityErrorBeforeMutation ==
    (CudaRan /\ (<<"nvcc">> \in Whitelist(eula) \/ <<"libcudart">> \notin Whitelist(eula))) =>
        (Last.raised /\ fs = Last.fs_before)

\* The whitelist lacks libcudart and the tree holds a file to replace.
C4_Witness ==
    /\ CudaRan
    /\ <<"libcudart">> \notin Whitelist(eula)
    /\ <<"nvcc">> \notin Whitelist(eula)
    /\ <<"libnvvm">> \in Whitelist(eula)
    /\ NotShipped(Last.fs_before, Whitelist(eula)) # {}
    /\ ln_ok

\* The path of a file relative to the install tree.
RelPath(p) == SubSeq(p, Len(installdir) + 2, Len(p))
EndsWith(s, t) == Len(t) <= Len(s) /\ SubSeq(s, Len(s) - Len(t) + 1, Len(s)) = t
InInstallTree(p) == StartsAt(p, installdir \o <<"/">>, 1)

\* C5: after cuda_postpackage returns, a regular file with a whitelisted stem
\* is still a regular file; a regular file with another stem is a symlink to
\* a path of the host_injections tree, which differs from the file's own
\* path, lies outside the install tree and ends with the file's relative
\* path; a symlink is as it was.
C5_ReplacedBySymlinks ==
    (CudaRan /\ ~Last.raised) =>
        /\ DOMAIN fs = DOMAIN Last.fs_before
        /\ \A p \in DOMAIN Last.fs_before :
            IF Last.fs_before[p].kind = "link" THEN fs[p] = Last.fs_before[p]
            ELSE IF Stem(Filename(p)) \in Whitelist(eula) THEN fs[p] = RegularFile
            ELSE /\ fs[p].kind = "link"
                 /\ fs[p].target # p
                 /\ ~InInstallTree(fs[p].target)
                 /\ Contains(fs[p].target, <<"host_injections">>)
                 /\ EndsWith(fs[p].target, RelPath(p))

====
